---- MODULE Spec2Model ----
(***************************************************************************)
(* Model of package hq (src/hq/html_query.go): the lazy node-set           *)
(* combinators over an html.Node tree, the collectors that drive them and  *)
(* the text extraction used by ChildrenAsText.                             *)
(*                                                                         *)
(* html.Node objects live in `heap`: a sequence of node records, a node    *)
(* pointer is an index into it and Nil (0) is the nil pointer.  A NodeEnum *)
(* is a sequence of stages: stage 1 is the source (oneNode or fixNodes)    *)
(* and every later stage is the combinator struct wrapping the stages      *)
(* before it (its `data` field).  Strings are sequences of characters.     *)
(***************************************************************************)
EXTENDS Integers, Sequences, FiniteSets

VARIABLES heap, p, ret, prev, drives

vars == <<heap, p, ret, prev, drives>>

\* ---------------------------------------------------------------- bounds

\* longest combinator chain built on a source (stages after the source)
MaxChain == 2
\* number of calls that drive an enumerable in one behaviour
MaxDrives == 2
\* ChildN levels are drawn from -MaxLevel..MaxLevel
MaxLevel == 2
\* NextSibling deltas are drawn from -MaxDelta..MaxDelta
MaxDelta == 2
\* depth of nested anyForEach calls after which the call stack is exhausted
MaxRecursion == 8

\* ---------------------------------------------------------------- values

Nil == 0

ErrNil == "nil"
ErrNotFound == "ErrNotFound"
ErrBreak == "ErrBreak"
ErrTooManyNodes == "ErrTooManyNodes"
ErrNotTextNode == "ErrNotTextNode"
\* the error html.Parse reports to NewSource
ErrParse == "ErrParse"
\* the runtime's fatal error of a goroutine whose stack is exhausted
StackOverflow == "StackOverflow"

TextNode == "TextNode"
ElementNode == "ElementNode"
DocumentNode == "DocumentNode"

NodeTypes == {TextNode, ElementNode}

AtomNone == "0"
AtomP == "P"
AtomDiv == "Div"
AtomSpan == "Span"

\* the characters strings.Trim(node.Data, " \t\r\n") cuts
TrimSet == {" ", "\t", "\r", "\n"}

\* ---------------------------------------------------------------- trees

Node(parent, first, last, prevSib, nextSib, type, atom, data) ==
    [Parent |-> parent, FirstChild |-> first, LastChild |-> last,
     PrevSibling |-> prevSib, NextSibling |-> nextSib,
     Type |-> type, DataAtom |-> atom, Data |-> data]

\* <div><p>A</p><p>B</p></div>
TreeDivPP ==
    << Node(Nil, 2, 4, Nil, Nil, ElementNode, AtomDiv, <<"d", "i", "v">>),
       Node(1, 3, 3, Nil, 4, ElementNode, AtomP, <<"p">>),
       Node(2, Nil, Nil, Nil, Nil, TextNode, AtomNone, <<"A">>),
       Node(1, 5, 5, 2, Nil, ElementNode, AtomP, <<"p">>),
       Node(4, Nil, Nil, Nil, Nil, TextNode, AtomNone, <<"B">>) >>

\* document > <div><p> A</p>B <span></span></div>
TreeDoc ==
    << Node(Nil, 2, 2, Nil, Nil, DocumentNode, AtomNone, <<>>),
       Node(1, 3, 6, Nil, Nil, ElementNode, AtomDiv, <<"d", "i", "v">>),
       Node(2, 4, 4, Nil, 5, ElementNode, AtomP, <<"p">>),
       Node(3, Nil, Nil, Nil, Nil, TextNode, AtomNone, <<" ", "A">>),
       Node(2, Nil, Nil, 3, 6, TextNode, AtomNone, <<"B", " ">>),
       Node(2, Nil, Nil, 5, Nil, ElementNode, AtomSpan, <<"s", "p", "a", "n">>) >>

Trees == {TreeDivPP, TreeDoc}

\* the argument lists Nodes(...) is called with, for a tree of n nodes
FixLists(n) ==
    {<<>>, <<2, 4>>, <<3, n>>, <<1, 2, 3>>}

\* the predicates Match is called with
PredNames == {"isElement", "isP"}

\* ---------------------------------------------------------------- text

RECURSIVE TrimLeft(_)
TrimLeft(s) ==
    IF s # <<>> /\ Head(s) \in TrimSet THEN TrimLeft(Tail(s)) ELSE s

RECURSIVE TrimRight(_)
TrimRight(s) ==
    IF s # <<>> /\ s[Len(s)] \in TrimSet
    THEN TrimRight(SubSeq(s, 1, Len(s) - 1))
    ELSE s

\* strings.Trim(s, " \t\r\n")
Trim(s) == TrimRight(TrimLeft(s))

\* textPrinter.printText on the printer state pr = [data, notLineStart]
printText(pr, v) ==
    IF v = <<>> THEN pr
    ELSE IF pr.notLineStart
         THEN [pr EXCEPT !.data = (@ \o <<" ">>) \o v]
         ELSE [data |-> pr.data \o v, notLineStart |-> TRUE]

RECURSIVE printNode(_, _, _), printChildren(_, _, _)
\* textPrinter.printNode(node) on the tree h
printNode(h, pr, node) ==
    IF node = Nil THEN pr
    ELSE IF h[node].Type = TextNode THEN printText(pr, Trim(h[node].Data))
    ELSE LET q == printChildren(h, pr, h[node].FirstChild)
         IN  IF h[node].DataAtom = AtomP
             THEN [data |-> q.data \o <<"\n">>, notLineStart |-> FALSE]
             ELSE q

\* the loop of printNode over child, child.NextSibling, ...
printChildren(h, pr, child) ==
    IF child = Nil THEN pr
    ELSE printChildren(h, printNode(h, pr, child), h[child].NextSibling)

\* Text(node)
Text(h, node) == printNode(h, [data |-> <<>>, notLineStart |-> FALSE], node).data

\* the predicate functions passed to Match
Pred(name, h, node) ==
    CASE name = "isElement" -> h[node].Type = ElementNode
      [] name = "isP" -> h[node].DataAtom = AtomP
      [] name = "isText" -> h[node].Type = TextNode

\* FirstChild(node, nodeType): the node found, or Nil with ErrNotFound
RECURSIVE FirstChildFrom(_, _, _)
FirstChildFrom(h, c, nodeType) ==
    IF c = Nil THEN Nil
    ELSE IF h[c].Type = nodeType THEN c
    ELSE FirstChildFrom(h, h[c].NextSibling, nodeType)

FirstChild(h, node, nodeType) == FirstChildFrom(h, h[node].FirstChild, nodeType)

\* LastChild(node, nodeType): the node found, or Nil with ErrNotFound
RECURSIVE LastChildFrom(_, _, _)
LastChildFrom(h, c, nodeType) ==
    IF c = Nil THEN Nil
    ELSE IF h[c].Type = nodeType THEN c
    ELSE LastChildFrom(h, h[c].PrevSibling, nodeType)

LastChild(h, node, nodeType) == LastChildFrom(h, h[node].LastChild, nodeType)

\* ---------------------------------------------------------------- node sets

\* a stage of a NodeEnum: the struct and its own fields (its `data` field is
\* the stages before it)
Stage(kind, n, nodes, t, b) ==
    [kind |-> kind, n |-> n, nodes |-> nodes, t |-> t, b |-> b]

oneNode(node) == Stage("oneNode", node, <<>>, "", FALSE)
fixNodes(nodes) == Stage("fixNodes", 0, nodes, "", FALSE)
anyNodes == Stage("anyNodes", 0, <<>>, "", FALSE)
childLevelNodes(level) == Stage("childLevelNodes", level, <<>>, "", FALSE)
parentLevelNodes(level) == Stage("parentLevelNodes", level, <<>>, "", FALSE)
siblingNodes(delta) == Stage("siblingNodes", delta, <<>>, "", FALSE)
prevSiblingNodes == Stage("prevSiblingNodes", 0, <<>>, "", FALSE)
nextSiblingNodes == Stage("nextSiblingNodes", 0, <<>>, "", FALSE)
firstChildNodes(nodeType) == Stage("firstChildNodes", 0, <<>>, nodeType, FALSE)
lastChildNodes(nodeType) == Stage("lastChildNodes", 0, <<>>, nodeType, FALSE)
matchedNodes(filter) == Stage("matchedNodes", 0, <<>>, filter, FALSE)
textNodes(doReplace) == Stage("textNodes", 0, <<>>, "", doReplace)

\* NodeSet{Data, Err}; Data = <<>> is the nil NodeEnum
NodeSet(data, err) == [Data |-> data, Err |-> err]

\* NewSource(r): the document root (node 1) of the parsed tree, or the
\* parser's error
NewSource(parsed) ==
    IF ~parsed THEN NodeSet(<<>>, ErrParse) ELSE NodeSet(<<oneNode(1)>>, ErrNil)

\* Nodes(nodes...)
Nodes(nodes) == NodeSet(<<fixNodes(nodes)>>, ErrNil)

\* NodeSet.Ok
Ok(ns) == ns.Err = ErrNil

\* ---------------------------------------------------------------- driving

\* The state one call of ForEach threads through the callbacks: the tree,
\* the variables the collector's func literal captures (item, items, err)
\* and a record of what happened: the nodes handed to the caller's visitor
\* (calls), how many of them after the visitor had returned ErrBreak (late),
\* the nodes the last combinator of the chain received from its upstream
\* (ins), the predicate calls (preds), the source enumerations started
\* (drove) and the string a text method returns (text).
St0(h, vis, err) ==
    [heap |-> h, vis |-> vis, item |-> Nil, items |-> <<>>, err |-> err,
     calls |-> <<>>, late |-> 0, broke |-> FALSE, ins |-> <<>>, preds |-> 0,
     drove |-> 0, crashed |-> FALSE, text |-> <<>>]

R(sig, st) == [sig |-> sig, st |-> st]

\* the func literal of Collect
collectFilter(node, st) ==
    R(ErrNil, [st EXCEPT !.items = Append(@, node)])

\* the func literal of CollectOne()
collectOneFilter(node, st) ==
    R(ErrBreak, [st EXCEPT !.item = node, !.err = ErrNil])

\* the func literal of CollectOne(true)
collectOneExactlyFilter(node, st) ==
    IF st.err = ErrNotFound
    THEN R(ErrNil, [st EXCEPT !.item = node, !.err = ErrNil])
    ELSE R(ErrBreak, [st EXCEPT !.err = ErrTooManyNodes])

\* the func literal of NodeSet.ForEach: filter(NodeSet{Data: oneNode{node}})
forEachFilter(node, st) == R(ErrNil, st)

\* the caller's visitor, with the record of its invocations
Visit(node, st) ==
    LET r == CASE st.vis = "Collect" -> collectFilter(node, st)
               [] st.vis = "CollectOne" -> collectOneFilter(node, st)
               [] st.vis = "CollectOneExactly" -> collectOneExactlyFilter(node, st)
               [] st.vis = "ForEach" -> forEachFilter(node, st)
    IN  R(r.sig, [r.st EXCEPT !.calls = Append(@, node),
                              !.late = IF st.broke THEN @ + 1 ELSE @,
                              !.broke = @ \/ r.sig = ErrBreak])

RECURSIVE Emit(_, _, _, _)
RECURSIVE anyForEach(_, _, _, _, _), anyForEachLoop(_, _, _, _, _)
RECURSIVE childLevelForEach(_, _, _, _, _), childLevelForEachLoop(_, _, _, _, _)
RECURSIVE parentLevelForEach(_, _, _, _, _)
RECURSIVE siblingForEach(_, _, _, _, _)
RECURSIVE prevSiblingLoop(_, _, _, _), nextSiblingLoop(_, _, _, _)

\* anyForEach going below every node the visitor does not break on
anyForEachAlwaysDescend(d, k, node, st, depth) ==
    IF depth > MaxRecursion THEN R(ErrNil, [st EXCEPT !.crashed = TRUE])
    ELSE LET r == Emit(d, k + 1, node, st)
         IN  IF r.sig = ErrBreak THEN r
             ELSE anyForEachLoop(d, k, r.st.heap[node].FirstChild, r.st, depth)

\* anyForEach(p, filter), filter being the callback of stage k + 1; depth
\* counts the nested calls
anyForEach(d, k, node, st, depth) ==
    IF depth > MaxRecursion THEN R(ErrNil, [st EXCEPT !.crashed = TRUE])
    ELSE LET r == Emit(d, k + 1, node, st)
         IN  IF r.sig = ErrNil \/ r.sig = ErrBreak THEN r
             ELSE anyForEachLoop(d, k, r.st.heap[node].FirstChild, r.st, depth)

\* the loop of anyForEach over node, node.NextSibling, ...
anyForEachLoop(d, k, node, st, depth) ==
    IF node = Nil THEN R(ErrNil, st)
    ELSE LET r == anyForEach(d, k, node, st, depth + 1)
         IN  IF r.sig = ErrBreak THEN R(ErrBreak, r.st)
             ELSE anyForEachLoop(d, k, r.st.heap[node].NextSibling, r.st, depth)

\* anyNodes.ForEach: the func literal it hands to p.data.ForEach
anyNodesForEach(d, k, node, st) ==
    R(ErrNil, anyForEach(d, k, node, st, 0).st)

\* childLevelForEach(p, level, filter)
childLevelForEach(d, k, node, level, st) ==
    IF level = 0 THEN Emit(d, k + 1, node, st)
    ELSE childLevelForEachLoop(d, k, st.heap[node].FirstChild, level - 1, st)

\* the loop of childLevelForEach ending after the first child
childLevelForEachLoopFirstOnly(d, k, node, level, st) ==
    IF node = Nil THEN R(ErrNil, st)
    ELSE LET r == childLevelForEach(d, k, node, level, st)
         IN  IF r.sig = ErrBreak THEN R(ErrBreak, r.st) ELSE R(ErrNil, r.st)

\* the loop of childLevelForEach over node, node.NextSibling, ...
childLevelForEachLoop(d, k, node, level, st) ==
    IF node = Nil THEN R(ErrNil, st)
    ELSE LET r == childLevelForEach(d, k, node, level, st)
         IN  IF r.sig = ErrBreak THEN R(ErrBreak, r.st)
             ELSE childLevelForEachLoop(d, k, r.st.heap[node].NextSibling, level, r.st)

\* parentLevelForEach answering ErrBreak where the parents run out
parentLevelForEachBreak(d, k, node, level, st) ==
    IF level < 0
    THEN IF st.heap[node].Parent = Nil THEN R(ErrBreak, st)
         ELSE parentLevelForEach(d, k, st.heap[node].Parent, level + 1, st)
    ELSE Emit(d, k + 1, node, st)

\* parentLevelForEach(p, level, filter)
parentLevelForEach(d, k, node, level, st) ==
    IF level < 0
    THEN IF st.heap[node].Parent = Nil THEN R(ErrNotFound, st)
         ELSE parentLevelForEach(d, k, st.heap[node].Parent, level + 1, st)
    ELSE Emit(d, k + 1, node, st)

\* siblingForEach emitting the node the links end at where they run out
siblingForEachClamp(d, k, node, delta, st) ==
    IF delta > 0
    THEN IF st.heap[node].NextSibling = Nil THEN Emit(d, k + 1, node, st)
         ELSE siblingForEach(d, k, st.heap[node].NextSibling, delta - 1, st)
    ELSE IF delta < 0
    THEN IF st.heap[node].PrevSibling = Nil THEN Emit(d, k + 1, node, st)
         ELSE siblingForEach(d, k, st.heap[node].PrevSibling, delta + 1, st)
    ELSE Emit(d, k + 1, node, st)

\* siblingForEach(p, delta, filter)
siblingForEach(d, k, node, delta, st) ==
    IF delta > 0
    THEN IF st.heap[node].NextSibling = Nil THEN R(ErrNotFound, st)
         ELSE siblingForEach(d, k, st.heap[node].NextSibling, delta - 1, st)
    ELSE IF delta < 0
    THEN IF st.heap[node].PrevSibling = Nil THEN R(ErrNotFound, st)
         ELSE siblingForEach(d, k, st.heap[node].PrevSibling, delta + 1, st)
    ELSE Emit(d, k + 1, node, st)

\* prevSiblingNodes.ForEach: the loop of its func literal from q on
prevSiblingLoop(d, k, q, st) ==
    IF q = Nil THEN R(ErrNil, st)
    ELSE LET r == Emit(d, k + 1, q, st)
         IN  IF r.sig = ErrBreak THEN R(ErrBreak, r.st)
             ELSE prevSiblingLoop(d, k, r.st.heap[q].PrevSibling, r.st)

\* the loop of nextSiblingNodes.ForEach answering nil to its upstream when the
\* visitor breaks
nextSiblingLoopResume(d, k, q, st) ==
    IF q = Nil THEN R(ErrNil, st)
    ELSE LET r == Emit(d, k + 1, q, st)
         IN  IF r.sig = ErrBreak THEN R(ErrNil, r.st)
             ELSE nextSiblingLoop(d, k, r.st.heap[q].NextSibling, r.st)

\* nextSiblingNodes.ForEach: the loop of its func literal from q on
nextSiblingLoop(d, k, q, st) ==
    IF q = Nil THEN R(ErrNil, st)
    ELSE LET r == Emit(d, k + 1, q, st)
         IN  IF r.sig = ErrBreak THEN R(ErrBreak, r.st)
             ELSE nextSiblingLoop(d, k, r.st.heap[q].NextSibling, r.st)

\* firstChildNodes.ForEach: its func literal
firstChildNodesForEach(d, k, node, st) ==
    LET child == FirstChild(st.heap, node, d[k].t)
    IN  IF child = Nil THEN R(ErrNotFound, st) ELSE Emit(d, k + 1, child, st)

\* lastChildNodes.ForEach: its func literal
lastChildNodesForEach(d, k, node, st) ==
    LET child == LastChild(st.heap, node, d[k].t)
    IN  IF child = Nil THEN R(ErrNotFound, st) ELSE Emit(d, k + 1, child, st)

\* matchedNodes.ForEach answering ErrBreak for a node the predicate rejects
matchedNodesForEachBreak(d, k, node, st) ==
    LET s1 == [st EXCEPT !.preds = @ + 1]
    IN  IF Pred(d[k].t, st.heap, node) THEN Emit(d, k + 1, node, s1)
        ELSE R(ErrBreak, s1)

\* matchedNodes.ForEach: its func literal
matchedNodesForEach(d, k, node, st) ==
    LET s1 == [st EXCEPT !.preds = @ + 1]
    IN  IF Pred(d[k].t, st.heap, node) THEN Emit(d, k + 1, node, s1)
        ELSE R(ErrNotFound, s1)

\* the func literal of textNodes.ForEach replacing the children whatever
\* doReplace says
textNodesForEachAlwaysReplace(d, k, t, st) ==
    LET node == Len(st.heap) + 1
        h1 == Append(st.heap,
                     Node(t, Nil, Nil, Nil, Nil, TextNode, AtomNone, Text(st.heap, t)))
        h2 == [h1 EXCEPT ![t].FirstChild = node, ![t].LastChild = node]
    IN  Emit(d, k + 1, node, [st EXCEPT !.heap = h2])

\* textNodes.ForEach: its func literal; the new html.Node is the next free
\* index of the heap
textNodesForEach(d, k, t, st) ==
    LET node == Len(st.heap) + 1
        h1 == Append(st.heap,
                     Node(t, Nil, Nil, Nil, Nil, TextNode, AtomNone, Text(st.heap, t)))
        h2 == IF d[k].b
              THEN [h1 EXCEPT ![t].FirstChild = node, ![t].LastChild = node]
              ELSE h1
    IN  Emit(d, k + 1, node, [st EXCEPT !.heap = h2])

\* the callback stage k of the chain d receives its upstream's nodes with;
\* past the last stage it is the caller's visitor
Emit(d, k, node, st0) ==
    LET st == IF k = Len(d) THEN [st0 EXCEPT !.ins = Append(@, node)] ELSE st0
    IN
    IF st.crashed THEN R(ErrNil, st)
    ELSE IF k > Len(d) THEN Visit(node, st)
    ELSE CASE d[k].kind = "anyNodes" -> anyNodesForEach(d, k, node, st)
           [] d[k].kind = "childLevelNodes" ->
                childLevelForEach(d, k, node, d[k].n, st)
           [] d[k].kind = "parentLevelNodes" ->
                parentLevelForEach(d, k, node, d[k].n, st)
           [] d[k].kind = "siblingNodes" -> siblingForEach(d, k, node, d[k].n, st)
           [] d[k].kind = "prevSiblingNodes" ->
                prevSiblingLoop(d, k, st.heap[node].PrevSibling, st)
           [] d[k].kind = "nextSiblingNodes" ->
                nextSiblingLoop(d, k, st.heap[node].NextSibling, st)
           [] d[k].kind = "firstChildNodes" -> firstChildNodesForEach(d, k, node, st)
           [] d[k].kind = "lastChildNodes" -> lastChildNodesForEach(d, k, node, st)
           [] d[k].kind = "matchedNodes" -> matchedNodesForEach(d, k, node, st)
           [] d[k].kind = "textNodes" -> textNodesForEach(d, k, node, st)

\* oneNode.ForEach: filter(p.Node), its result dropped
oneNodeForEach(d, st) == Emit(d, 2, d[1].n, st).st

\* fixNodes.ForEach from the i-th node on
RECURSIVE fixNodesForEach(_, _, _)
fixNodesForEach(d, i, st) ==
    IF i > Len(d[1].nodes) THEN st
    ELSE LET r == Emit(d, 2, d[1].nodes[i], st)
         IN  IF r.sig = ErrBreak THEN r.st ELSE fixNodesForEach(d, i + 1, r.st)

\* p.Data.ForEach(filter): a call on the nil NodeEnum panics
DataForEach(d, st) ==
    LET s1 == [st EXCEPT !.drove = @ + 1]
    IN  IF d = <<>> THEN [s1 EXCEPT !.crashed = TRUE]
        ELSE IF d[1].kind = "oneNode" THEN oneNodeForEach(d, s1)
        ELSE fixNodesForEach(d, 1, s1)

\* ---------------------------------------------------------------- operators

\* NodeSet.Any
Any(ns) ==
    IF ns.Err # ErrNil THEN ns
    ELSE NodeSet(Append(ns.Data, anyNodes), ErrNil)

\* NodeSet.ChildN
ChildN(ns, level) ==
    IF ns.Err # ErrNil \/ level = 0 THEN ns
    ELSE IF level > 0 THEN NodeSet(Append(ns.Data, childLevelNodes(level)), ErrNil)
    ELSE NodeSet(Append(ns.Data, parentLevelNodes(level)), ErrNil)

\* NodeSet.Child
Child(ns) == ChildN(ns, 1)

\* NodeSet.Parent
Parent(ns) == ChildN(ns, -1)

\* NodeSet.ParentN
ParentN(ns, level) == ChildN(ns, -level)

\* NodeSet.NextSibling
NextSibling(ns, delta) ==
    IF ns.Err # ErrNil THEN ns
    ELSE NodeSet(Append(ns.Data, siblingNodes(delta)), ErrNil)

\* NodeSet.PrevSibling
PrevSibling(ns, delta) == NextSibling(ns, -delta)

\* NodeSet.PrevSiblings
PrevSiblings(ns) ==
    IF ns.Err # ErrNil THEN ns
    ELSE NodeSet(Append(ns.Data, prevSiblingNodes), ErrNil)

\* NodeSet.NextSiblings
NextSiblings(ns) ==
    IF ns.Err # ErrNil THEN ns
    ELSE NodeSet(Append(ns.Data, nextSiblingNodes), ErrNil)

\* NodeSet.FirstChild
NodeSetFirstChild(ns, nodeType) ==
    IF ns.Err # ErrNil THEN ns
    ELSE NodeSet(Append(ns.Data, firstChildNodes(nodeType)), ErrNil)

\* NodeSet.LastChild
NodeSetLastChild(ns, nodeType) ==
    IF ns.Err # ErrNil THEN ns
    ELSE NodeSet(Append(ns.Data, lastChildNodes(nodeType)), ErrNil)

\* Match without the test of p.Err
MatchNoErrCheck(ns, filter) ==
    NodeSet(Append(ns.Data, matchedNodes(filter)), ErrNil)

\* NodeSet.Match
Match(ns, filter) ==
    IF ns.Err # ErrNil THEN ns
    ELSE NodeSet(Append(ns.Data, matchedNodes(filter)), ErrNil)

\* NodeSet.ChildrenAsText
ChildrenAsText(ns, doReplace) ==
    IF ns.Err # ErrNil THEN ns
    ELSE NodeSet(Append(ns.Data, textNodes(doReplace)), ErrNil)

\* ---------------------------------------------------------------- collectors

\* NodeSet.CollectOne(): the state the call ends in (item, err)
CollectOne(ns, h) ==
    IF ns.Err # ErrNil THEN St0(h, "CollectOne", ns.Err)
    ELSE DataForEach(ns.Data, St0(h, "CollectOne", ErrNotFound))

\* NodeSet.CollectOne(true)
CollectOneExactly(ns, h) ==
    IF ns.Err # ErrNil THEN St0(h, "CollectOneExactly", ns.Err)
    ELSE DataForEach(ns.Data, St0(h, "CollectOneExactly", ErrNotFound))

\* NodeSet.Collect: the state the call ends in (items, err)
Collect(ns, h) ==
    IF ns.Err # ErrNil THEN St0(h, "Collect", ns.Err)
    ELSE DataForEach(ns.Data, St0(h, "Collect", ErrNil))

\* NodeSet.ForEach
ForEach(ns, h) ==
    IF ns.Err = ErrNil THEN DataForEach(ns.Data, St0(h, "ForEach", ErrNil))
    ELSE St0(h, "ForEach", ErrNil)

\* ExactText(node): the string and the error returned
ExactText(h, node) ==
    IF h[node].Type # TextNode
    THEN [text |-> h[node].Data, err |-> ErrNil]
    ELSE [text |-> <<>>, err |-> ErrNotTextNode]

\* NodeSet.ExactText(exactlyOne...): CollectOne with the same arguments, then
\* ExactText of the node it returns
NodeSetExactText(ns, h, exactlyOne) ==
    LET st == IF exactlyOne THEN CollectOneExactly(ns, h) ELSE CollectOne(ns, h)
    IN  IF st.err # ErrNil THEN st
        ELSE LET r == ExactText(st.heap, st.item)
             IN  [st EXCEPT !.text = r.text, !.err = r.err]

\* the type assertion p.Data.(cachedNodeEnum): the types with a Cached method
IsCachedNodeEnum(d) ==
    d # <<>> /\ d[Len(d)].kind \in {"oneNode", "fixNodes", "anyNodes"}

\* oneNode.Cached, fixNodes.Cached, anyNodes.Cached
Cached(d) ==
    CASE d[Len(d)].kind = "oneNode" -> 1
      [] d[Len(d)].kind = "fixNodes" -> Len(d[1].nodes)
      [] d[Len(d)].kind = "anyNodes" -> -1

\* NodeSet.CachedLen
CachedLen(ns) == IF IsCachedNodeEnum(ns.Data) THEN Cached(ns.Data) ELSE 0

\* NodeSet.Cache: the node set returned and the state the call ends in
Cache(ns, h) ==
    IF IsCachedNodeEnum(ns.Data) THEN [ns |-> ns, st |-> St0(h, "Collect", ErrNil)]
    ELSE LET st == Collect(ns, h)
         IN  IF st.err # ErrNil THEN [ns |-> NodeSet(<<>>, st.err), st |-> st]
             ELSE [ns |-> NodeSet(<<fixNodes(st.items)>>, ErrNil), st |-> st]

\* the type assertion p.Data.(oneNode)
IsOneNode(d) == d # <<>> /\ d[Len(d)].kind = "oneNode"

\* NodeSet.One: the node set returned and the state the call ends in
One(ns, h) ==
    IF IsOneNode(ns.Data) THEN [ns |-> ns, st |-> St0(h, "CollectOne", ErrNil)]
    ELSE LET st == CollectOne(ns, h)
         IN  IF st.err # ErrNil THEN [ns |-> NodeSet(<<>>, st.err), st |-> st]
             ELSE [ns |-> NodeSet(<<oneNode(st.item)>>, ErrNil), st |-> st]

\* ---------------------------------------------------------------- behaviour

\* the call just made: the method, its integer argument (0 when it has
\* none), its receiver, the tree before the call and the state the call
\* ended in
Call(op, arg, ns, h, st) ==
    [op |-> op, arg |-> arg, ns |-> ns, pre |-> h, out |-> st]

Terminals == {"CollectOne", "CollectOneExactly", "Collect", "ForEach", "ExactText"}

\* the calls after which the model builds no further chain on the node set
Driving == Terminals \cup {"One", "Cache"}

\* the node sets a program starts from
Sources(h) ==
    {NewSource(TRUE), NewSource(FALSE)} \cup {Nodes(l) : l \in FixLists(Len(h))}

Init ==
    /\ heap \in Trees
    /\ p \in Sources(heap)
    /\ ret = Call("source", 0, p, heap, St0(heap, "none", ErrNil))
    /\ prev = ret
    /\ drives = 0

\* the process has not died of a panic or of an exhausted stack
Alive == ~ret.out.crashed

\* a chained operator that only wraps the receiver
Wrap(op, arg, q) ==
    /\ Alive
    /\ ret.op \notin Driving
    /\ Len(p.Data) <= MaxChain
    /\ p' = q
    /\ ret' = Call(op, arg, p, heap, St0(heap, "none", ErrNil))
    /\ UNCHANGED <<heap, prev, drives>>

\* a chained operator that may drive the receiver (One, Cache)
WrapDriving(op, r) ==
    /\ Alive
    /\ ret.op \notin Driving
    /\ drives + r.st.drove <= MaxDrives
    /\ p' = r.ns
    /\ ret' = Call(op, 0, p, heap, r.st)
    /\ heap' = r.st.heap
    /\ drives' = drives + r.st.drove
    /\ UNCHANGED prev

\* a terminal call
Terminal(op, st) ==
    /\ Alive
    /\ drives < MaxDrives
    /\ ret' = Call(op, 0, p, heap, st)
    /\ heap' = st.heap
    /\ prev' = ret
    /\ drives' = drives + 1
    /\ UNCHANGED p

DoAny == Wrap("Any", 0, Any(p))

DoChildN == \E level \in -MaxLevel..MaxLevel : Wrap("ChildN", level, ChildN(p, level))

DoChild == Wrap("Child", 0, Child(p))

DoParent == Wrap("Parent", 0, Parent(p))

DoParentN == \E level \in -MaxLevel..MaxLevel : Wrap("ParentN", level, ParentN(p, level))

DoNextSibling ==
    \E delta \in -MaxDelta..MaxDelta : Wrap("NextSibling", delta, NextSibling(p, delta))

DoPrevSibling ==
    \E delta \in -MaxDelta..MaxDelta : Wrap("PrevSibling", delta, PrevSibling(p, delta))

DoPrevSiblings == Wrap("PrevSiblings", 0, PrevSiblings(p))

DoNextSiblings == Wrap("NextSiblings", 0, NextSiblings(p))

DoFirstChild ==
    \E nodeType \in NodeTypes : Wrap("FirstChild", 0, NodeSetFirstChild(p, nodeType))

DoLastChild ==
    \E nodeType \in NodeTypes : Wrap("LastChild", 0, NodeSetLastChild(p, nodeType))

DoMatch == \E filter \in PredNames : Wrap("Match", 0, Match(p, filter))

DoChildrenAsText ==
    \E doReplace \in BOOLEAN : Wrap("ChildrenAsText", 0, ChildrenAsText(p, doReplace))

DoOne == WrapDriving("One", One(p, heap))

DoCache == WrapDriving("Cache", Cache(p, heap))

DoCollectOne == Terminal("CollectOne", CollectOne(p, heap))

DoCollectOneExactly == Terminal("CollectOneExactly", CollectOneExactly(p, heap))

DoCollect == Terminal("Collect", Collect(p, heap))

DoForEach == Terminal("ForEach", ForEach(p, heap))

DoExactText ==
    \E exactlyOne \in BOOLEAN :
        Terminal("ExactText", NodeSetExactText(p, heap, exactlyOne))

Next ==
    \/ DoAny
    \/ DoChildN
    \/ DoChild
    \/ DoParent
    \/ DoParentN
    \/ DoNextSibling
    \/ DoPrevSibling
    \/ DoPrevSiblings
    \/ DoNextSiblings
    \/ DoFirstChild
    \/ DoLastChild
    \/ DoMatch
    \/ DoChildrenAsText
    \/ DoOne
    \/ DoCache
    \/ DoCollectOne
    \/ DoCollectOneExactly
    \/ DoCollect
    \/ DoForEach
    \/ DoExactText

Spec == Init /\ [][Next]_vars

\* ---------------------------------------------------------------- properties

\* the chained operators of NodeSet
Chained ==
    {"Any", "ChildN", "Child", "Parent", "ParentN", "NextSibling", "PrevSibling",
     "PrevSiblings", "NextSiblings", "FirstChild", "LastChild", "Match",
     "ChildrenAsText", "One", "Cache"}

\* the call just made ran to its end
Returned == ret.op # "source" /\ ~ret.out.crashed

\* the children of x, first to last
RECURSIVE SiblingsFrom(_, _)
SiblingsFrom(h, c) ==
    IF c = Nil THEN <<>> ELSE <<c>> \o SiblingsFrom(h, h[c].NextSibling)

Children(h, x) == SiblingsFrom(h, h[x].FirstChild)

\* the nodes n child-links below x, in document order
RECURSIVE DescAt(_, _, _), DescAtEach(_, _, _)
DescAt(h, x, n) == IF n = 0 THEN <<x>> ELSE DescAtEach(h, Children(h, x), n - 1)

DescAtEach(h, xs, n) ==
    IF xs = <<>> THEN <<>> ELSE DescAt(h, Head(xs), n) \o DescAtEach(h, Tail(xs), n)

\* the n-th ancestor of x, <<>> when x has fewer than n ancestors
RECURSIVE AncAt(_, _, _)
AncAt(h, x, n) ==
    IF n = 0 THEN <<x>>
    ELSE IF h[x].Parent = Nil THEN <<>>
    ELSE AncAt(h, h[x].Parent, n - 1)

\* the subtree rooted at x in pre-order
RECURSIVE PreOrder(_, _), PreOrderEach(_, _)
PreOrder(h, x) == <<x>> \o PreOrderEach(h, Children(h, x))

PreOrderEach(h, xs) ==
    IF xs = <<>> THEN <<>> ELSE PreOrder(h, Head(xs)) \o PreOrderEach(h, Tail(xs))

\* the nodes of a oneNode or fixNodes source
SourceNodes(d) == IF d[1].kind = "oneNode" THEN <<d[1].n>> ELSE d[1].nodes

\* no stage of the chain rewrites the tree
ReadOnly(d) == \A i \in 1..Len(d) : ~(d[i].kind = "textNodes" /\ d[i].b)

\* no stage of the chain is an Any
NoAny(d) == \A i \in 1..Len(d) : d[i].kind # "anyNodes"

\* the chain without its last stage
Front(d) == SubSeq(d, 1, Len(d) - 1)

\* C1: a call on a node set whose Err is set starts no enumeration and
\* invokes no visitor and no predicate, leaves the tree alone, and hands
\* the same Err on: a chained operator in the node set it returns, CollectOne
\* and Collect as their error with no node; ForEach does nothing.
C1_ErrPassThrough ==
    (Returned /\ ret.ns.Err # ErrNil) =>
        /\ ret.out.drove = 0
        /\ ret.out.calls = <<>>
        /\ ret.out.preds = 0
        /\ heap = ret.pre
        /\ p.Err = ret.ns.Err
        /\ ret.op \in {"CollectOne", "CollectOneExactly", "Collect"} =>
             (ret.out.err = ret.ns.Err /\ ret.out.item = Nil /\ ret.out.items = <<>>)

\* C1 witness: Collect after a Match on the node set of a failed NewSource
C1_Witness ==
    /\ ret.op = "Collect"
    /\ prev.op = "Match"
    /\ ret.ns.Err = ErrParse
    /\ ret.out.err = ErrParse

\* C2: in one terminal call the visitor is never invoked again once it has
\* returned ErrBreak.
C2_NoVisitAfterBreak == Returned => ret.out.late = 0

\* the nodes of s that satisfy the predicate, in the order of s
RECURSIVE Matching(_, _, _)
Matching(name, h, s) ==
    IF s = <<>> THEN <<>>
    ELSE (IF Pred(name, h, Head(s)) THEN <<Head(s)>> ELSE <<>>)
         \o Matching(name, h, Tail(s))

\* the last stage of the receiver of the call just made
LastStage == ret.ns.Data[Len(ret.ns.Data)]

\* the call just made is a Collect that ran to its end on an Ok node set
\* whose chain ends in the given kind of stage
Collected(kind) ==
    /\ Returned
    /\ ret.op = "Collect"
    /\ Ok(ret.ns)
    /\ LastStage.kind = kind

\* what Collect returns for the receiver without its last stage, on the
\* tree the call started from
Upstream == Collect(NodeSet(Front(ret.ns.Data), ErrNil), ret.pre)

\* C3: Collect of S.Match(p) returns the sequence Collect of S returns with
\* the nodes that do not satisfy p removed.
C3_MatchFiltersCollect ==
    (Collected("matchedNodes") /\ ~Upstream.crashed) =>
        ret.out.items = Matching(LastStage.t, ret.out.heap, Upstream.items)

\* C3 amended: when the chain of S holds no Any, Collect of S.Match(p)
\* returns the sequence Collect of S returns with the nodes that do not
\* satisfy p removed.
C3_MatchFiltersCollectNoAny ==
    (Collected("matchedNodes") /\ NoAny(ret.ns.Data) /\ ~Upstream.crashed) =>
        ret.out.items = Matching(LastStage.t, ret.out.heap, Upstream.items)

\* C3 witness: a Match on a chain without Any let a node through after it had
\* rejected an earlier one
C3_Witness ==
    /\ Collected("matchedNodes")
    /\ NoAny(ret.ns.Data)
    /\ ret.out.items # <<>>
    /\ \E i, j \in 1..Len(Upstream.items) :
          /\ i < j
          /\ ~Pred(LastStage.t, ret.out.heap, Upstream.items[i])
          /\ Pred(LastStage.t, ret.out.heap, Upstream.items[j])

\* the pre-order walks of the subtrees rooted at the nodes of xs, one after
\* the other
RECURSIVE PreOrderAll(_, _)
PreOrderAll(h, xs) ==
    IF xs = <<>> THEN <<>> ELSE PreOrder(h, Head(xs)) \o PreOrderAll(h, Tail(xs))

\* C4: Collect of Any() on a source returns the pre-order walk of the
\* subtree of each input node, and on <div><p>A</p><p>B</p></div> Any()
\* filtered to the Element nodes returns [div, p, p].
C4_AnyPreOrder ==
    /\ (Collected("anyNodes") /\ Len(ret.ns.Data) = 2) =>
          ret.out.items = PreOrderAll(ret.pre, SourceNodes(ret.ns.Data))
    /\ (/\ Collected("matchedNodes")
        /\ ret.pre = TreeDivPP
        /\ ret.ns = Match(Any(NewSource(TRUE)), "isElement")) =>
          ret.out.items = <<1, 2, 4>>

\* the walk Any makes of the subtree of x when a Match on the predicate
\* follows it: pre-order, not going below a node that satisfies the predicate
RECURSIVE Pruned(_, _, _), PrunedEach(_, _, _)
Pruned(name, h, x) ==
    <<x>> \o (IF Pred(name, h, x) THEN <<>> ELSE PrunedEach(name, h, Children(h, x)))

PrunedEach(name, h, xs) ==
    IF xs = <<>> THEN <<>>
    ELSE Pruned(name, h, Head(xs)) \o PrunedEach(name, h, Tail(xs))

\* C4 amended: Any() walks the subtree of each input node in pre-order but
\* goes below a node only when the visitor returns an error other than
\* ErrBreak for it: Collect of Any() on a source returns the input nodes
\* alone; followed by a Match, Any() hands the Match the pre-order walk cut
\* below every node that satisfies the predicate, and Collect returns the
\* satisfying nodes of that walk; on <div><p>A</p><p>B</p></div> Any()
\* filtered to the Element nodes returns [div].
C4_AnyStopsAtAccepted ==
    /\ (Collected("anyNodes") /\ Len(ret.ns.Data) = 2) =>
          ret.out.items = SourceNodes(ret.ns.Data)
    /\ (/\ Collected("matchedNodes")
        /\ Len(ret.ns.Data) = 3
        /\ ret.ns.Data[2].kind = "anyNodes") =>
          /\ ret.out.ins =
                PrunedEach(LastStage.t, ret.pre, SourceNodes(ret.ns.Data))
          /\ ret.out.items = Matching(LastStage.t, ret.pre, ret.out.ins)
    /\ (/\ Collected("matchedNodes")
        /\ ret.pre = TreeDivPP
        /\ ret.ns = Match(Any(NewSource(TRUE)), "isElement")) =>
          ret.out.items = <<1>>

\* C4 witness: Any() filtered to the Element nodes collected on
\* <div><p>A</p><p>B</p></div>
C4_Witness ==
    /\ Collected("matchedNodes")
    /\ ret.pre = TreeDivPP
    /\ ret.ns = Match(Any(NewSource(TRUE)), "isElement")
    /\ ret.out.items = <<1>>

\* C5: on an Ok node set CollectOne() returns ErrNotFound when Collect
\* returns no node and else the first node Collect returns; CollectOne(true)
\* returns ErrTooManyNodes exactly when Collect returns more than one node
\* and else does as CollectOne().
C5_CollectOneFirst ==
    (Returned /\ Ok(ret.ns) /\ ret.op \in {"CollectOne", "CollectOneExactly"}) =>
        LET all == Collect(ret.ns, ret.pre).items
        IN  IF ret.op = "CollectOneExactly" /\ Len(all) > 1
            THEN ret.out.err = ErrTooManyNodes
            ELSE IF all = <<>>
            THEN ret.out.err = ErrNotFound /\ ret.out.item = Nil
            ELSE ret.out.err = ErrNil /\ ret.out.item = all[1]

\* C6: one call of CollectOne(true) hands at most two nodes to the
\* collector's visitor.
C6_AtMostTwoVisited ==
    (Returned /\ ret.op = "CollectOneExactly") => Len(ret.out.calls) <= 2

\* the n-th ancestors of the nodes of xs that have one
RECURSIVE AncAtEach(_, _, _)
AncAtEach(h, xs, n) ==
    IF xs = <<>> THEN <<>> ELSE AncAt(h, Head(xs), n) \o AncAtEach(h, Tail(xs), n)

\* the call just made is a Collect that ran to its end on the Ok node set
\* the call before it, ChildN(level), returned, and no stage rewrites the tree
CollectedChildN ==
    /\ Returned
    /\ ret.op = "Collect"
    /\ Ok(ret.ns)
    /\ prev.op = "ChildN"
    /\ ReadOnly(ret.ns.Data)

\* C7: ChildN(n) with n > 0 emits, for each node it receives, in the order
\* received, the nodes n child-links below it in document order; with n < 0
\* it emits the |n|-th ancestor of each node it receives that has one and
\* nothing for the others, going on with the next node; the nodes it receives
\* are those the input node set emits (when no Any is upstream to react to
\* the not-found answer); ChildN(0) returns the input node set unchanged.
C7_ChildN ==
    /\ (CollectedChildN /\ prev.arg > 0) =>
          /\ LastStage = childLevelNodes(prev.arg)
          /\ ret.out.items = DescAtEach(ret.out.heap, ret.out.ins, prev.arg)
          /\ ret.out.ins = Upstream.items
    /\ (CollectedChildN /\ prev.arg < 0) =>
          /\ LastStage = parentLevelNodes(prev.arg)
          /\ ret.out.items = AncAtEach(ret.out.heap, ret.out.ins, -prev.arg)
          /\ NoAny(ret.ns.Data) => ret.out.ins = Upstream.items
    /\ (Returned /\ ret.op = "ChildN" /\ ret.arg = 0) => p = ret.ns

\* C7 witness: ChildN(-2) collected over an input whose first nodes have
\* fewer than two ancestors and whose last node has two
C7_Witness ==
    /\ CollectedChildN
    /\ prev.arg = -2
    /\ ret.out.ins = <<1, 2, 3>>
    /\ ret.out.items = <<1>>

\* the call just made is a Collect that ran to its end on S.ChildN(n).ChildN(-n)
\* for some n > 0, no stage rewriting the tree
CollectedRoundTrip ==
    /\ Collected("parentLevelNodes")
    /\ Len(ret.ns.Data) >= 3
    /\ ret.ns.Data[Len(ret.ns.Data) - 1].kind = "childLevelNodes"
    /\ ret.ns.Data[Len(ret.ns.Data) - 1].n = -LastStage.n
    /\ ReadOnly(ret.ns.Data)

\* what Collect returns for S, the receiver without its last two stages
Upstream2 == Collect(NodeSet(Front(Front(ret.ns.Data)), ErrNil), ret.pre)

\* x once for each node n child-links below it
RECURSIVE RepeatEach(_, _, _)
RepeatEach(h, xs, n) ==
    IF xs = <<>> THEN <<>>
    ELSE [i \in 1..Len(DescAt(h, Head(xs), n)) |-> Head(xs)]
         \o RepeatEach(h, Tail(xs), n)

\* C8: when every node S emits has a descendant at depth n, Collect of
\* S.ChildN(n).ChildN(-n) returns the sequence Collect of S returns.
C8_RoundTrip ==
    (/\ CollectedRoundTrip
     /\ \A i \in 1..Len(Upstream2.items) :
          DescAt(ret.out.heap, Upstream2.items[i], -LastStage.n) # <<>>) =>
        ret.out.items = Upstream2.items

\* C8 amended: Collect of S.ChildN(n).ChildN(-n) returns each node Collect of
\* S returns once for every descendant it has at depth n, in the order of S:
\* the nodes of S, each repeated as often as it has such descendants.
C8_RoundTripRepeats ==
    CollectedRoundTrip =>
        ret.out.items = RepeatEach(ret.out.heap, Upstream2.items, -LastStage.n)

\* C8 witness: the round trip over a node with two children returned it twice
C8_Witness ==
    /\ CollectedRoundTrip
    /\ Upstream2.items = <<1>>
    /\ ret.out.items = <<1, 1>>

\* the receiver of the call just made is lazy: its enumerable has no Cached
\* method or reports the length -1
Lazy == ~IsCachedNodeEnum(ret.ns.Data) \/ Cached(ret.ns.Data) = -1

\* C9: Cache() of an Ok node set that is lazy returns a node set whose
\* CachedLen is the number of nodes Collect returns for the receiver, none
\* negative, and that emits the same sequence; Cache() of a node set holding
\* a list or a single node returns it unchanged.
C9_CacheMaterializes ==
    (Returned /\ ret.op = "Cache" /\ Ok(ret.ns)) =>
        IF Lazy
        THEN LET all == Collect(ret.ns, ret.pre).items
             IN  /\ CachedLen(p) >= 0
                 /\ CachedLen(p) = Len(all)
                 /\ p.Data = <<fixNodes(all)>>
        ELSE p = ret.ns

\* the last two calls drove ChildrenAsText(true) on the same single node
TwiceAsText ==
    /\ Returned
    /\ ret.op \in Terminals
    /\ prev.op \in Terminals
    /\ ret.ns = prev.ns
    /\ Len(ret.ns.Data) = 2
    /\ ret.ns.Data[1].kind = "oneNode"
    /\ ret.ns.Data[2] = textNodes(TRUE)
    /\ ret.pre = prev.out.heap

\* C10: driving ChildrenAsText(true) on a node twice in a row gives the
\* synthesized text node the same text both times.
C10_SameTextTwice ==
    TwiceAsText =>
        ret.out.heap[ret.out.calls[1]].Data = prev.out.heap[prev.out.calls[1]].Data

\* the nodes linked before x by prev-sibling links, nearest first
RECURSIVE PrevRow(_, _)
PrevRow(h, x) ==
    IF h[x].PrevSibling = Nil THEN <<>>
    ELSE <<h[x].PrevSibling>> \o PrevRow(h, h[x].PrevSibling)

\* the nodes linked after x by next-sibling links, nearest first
NextRow(h, x) == SiblingsFrom(h, h[x].NextSibling)

\* the node delta sibling places after x (before x when delta < 0), <<>> when
\* the row of siblings ends earlier
SibAt(h, x, delta) ==
    LET row == IF delta > 0 THEN NextRow(h, x) ELSE PrevRow(h, x)
        m == IF delta > 0 THEN delta ELSE -delta
    IN  IF m = 0 THEN <<x>> ELSE IF m <= Len(row) THEN <<row[m]>> ELSE <<>>

RECURSIVE SibAtEach(_, _, _)
SibAtEach(h, xs, delta) ==
    IF xs = <<>> THEN <<>>
    ELSE SibAt(h, Head(xs), delta) \o SibAtEach(h, Tail(xs), delta)

\* the call just made ran to its end on the Ok node set the call before it,
\* NextSibling(delta) or PrevSibling(delta), returned
DroveSibling ==
    /\ Returned
    /\ Ok(ret.ns)
    /\ prev.op \in {"NextSibling", "PrevSibling"}

\* the offset in next-sibling links the call before asked for
SiblingDelta == IF prev.op = "NextSibling" THEN prev.arg ELSE -prev.arg

\* C11: NextSibling(delta) emits, for each node it receives, in the order
\* received, the node delta next-sibling links away (|delta| prev-sibling
\* links when delta < 0) and nothing for a node whose row of siblings ends
\* earlier, going on with the next node; the nodes it receives are those the
\* input node set emits (when no Any is upstream to react to the not-found
\* answer); CollectOne returns ErrNotFound and no node when every node
\* received runs out; NextSibling(0) emits the input sequence unchanged;
\* PrevSibling(delta) is NextSibling(-delta).
C11_NextSibling ==
    /\ (DroveSibling /\ ret.op = "Collect") =>
          /\ LastStage = siblingNodes(SiblingDelta)
          /\ ret.out.items = SibAtEach(ret.out.heap, ret.out.ins, SiblingDelta)
          /\ (NoAny(ret.ns.Data) \/ SiblingDelta = 0) => ret.out.ins = Upstream.items
          /\ SiblingDelta = 0 => ret.out.items = Upstream.items
    /\ (/\ DroveSibling
        /\ ret.op = "CollectOne"
        /\ SibAtEach(ret.out.heap, ret.out.ins, SiblingDelta) = <<>>) =>
          /\ ret.out.err = ErrNotFound
          /\ ret.out.item = Nil
          /\ ret.out.calls = <<>>
          /\ NoAny(ret.ns.Data) => ret.out.ins = Upstream.items

\* C11 witness: NextSibling(2) collected over three siblings, of which the
\* first has a sibling two links on and the other two run out
C11_Witness ==
    /\ DroveSibling
    /\ ret.op = "Collect"
    /\ SiblingDelta = 2
    /\ ret.out.ins = <<3, 5, 6>>
    /\ ret.out.items = <<6>>

\* C11 second witness: CollectOne after PrevSibling(1) over two nodes that
\* are both first in their row
C11_WitnessNotFound ==
    /\ DroveSibling
    /\ ret.op = "CollectOne"
    /\ SiblingDelta = -1
    /\ Len(ret.out.ins) = 2
    /\ ret.out.err = ErrNotFound

\* the call just made is a terminal call that ran to its end on an Ok node
\* set whose chain ends in PrevSiblings() or NextSiblings()
DroveSiblings ==
    /\ Returned
    /\ ret.op \in Terminals
    /\ Ok(ret.ns)
    /\ LastStage.kind \in {"prevSiblingNodes", "nextSiblingNodes"}

\* the siblings the last stage scans for the node x, nearest first
Row(h, x) ==
    IF LastStage.kind = "prevSiblingNodes" THEN PrevRow(h, x) ELSE NextRow(h, x)

\* the scans of the nodes of xs one after the other
RECURSIVE RowEach(_, _)
RowEach(h, xs) ==
    IF xs = <<>> THEN <<>> ELSE Row(h, Head(xs)) \o RowEach(h, Tail(xs))

\* C12: when the visitor returns ErrBreak during the scan of one input node of
\* PrevSiblings() or NextSiblings(), the input nodes after it are still
\* processed: of every node the upstream emits that has a sibling to scan,
\* the nearest such sibling is visited.
C12_BreakPerInput ==
    (DroveSiblings /\ NoAny(ret.ns.Data) /\ ret.out.broke) =>
        \A i \in 1..Len(Upstream.items) :
            Row(ret.out.heap, Upstream.items[i]) # <<>> =>
                \E j \in 1..Len(ret.out.calls) :
                    ret.out.calls[j] = Row(ret.out.heap, Upstream.items[i])[1]

\* C12 amended: PrevSiblings() and NextSiblings() scan, for each node they
\* receive, its siblings nearest first; when the visitor returns ErrBreak the
\* scan ends and the ErrBreak goes to the upstream, which (holding no Any)
\* ends the whole enumeration: the visitor is not invoked again, the nodes
\* received are a prefix of those the upstream emits, ending with the node
\* whose scan was broken, and the nodes visited are the scans of the nodes
\* received up to the break. Without a break every upstream node is scanned
\* to its end.
C12_BreakEndsEnumeration ==
    /\ (DroveSiblings /\ NoAny(ret.ns.Data) /\ ret.out.broke) =>
          /\ ret.out.late = 0
          /\ Len(ret.out.ins) <= Len(Upstream.items)
          /\ ret.out.ins = SubSeq(Upstream.items, 1, Len(ret.out.ins))
          /\ Len(ret.out.calls) <= Len(RowEach(ret.out.heap, ret.out.ins))
          /\ ret.out.calls =
                SubSeq(RowEach(ret.out.heap, ret.out.ins), 1, Len(ret.out.calls))
          /\ Len(ret.out.calls) > Len(RowEach(ret.out.heap, Front(ret.out.ins)))
    /\ (DroveSiblings /\ ~ret.out.broke) =>
          /\ ret.out.ins = Upstream.items
          /\ ret.out.calls = RowEach(ret.out.heap, ret.out.ins)

\* C12 witness: the visitor broke during the scan of one input node while an
\* input node with a sibling to scan was still to come, and that node was
\* never received
C12_Witness ==
    /\ DroveSiblings
    /\ NoAny(ret.ns.Data)
    /\ ret.out.broke
    /\ Len(ret.out.ins) < Len(Upstream.items)
    /\ \E i \in (Len(ret.out.ins) + 1)..Len(Upstream.items) :
          Row(ret.out.heap, Upstream.items[i]) # <<>>

\* the records a and b differ at most in their child links
SameButChildren(a, b) ==
    /\ a.Parent = b.Parent
    /\ a.PrevSibling = b.PrevSibling
    /\ a.NextSibling = b.NextSibling
    /\ a.Type = b.Type
    /\ a.DataAtom = b.DataAtom
    /\ a.Data = b.Data

\* f is a text node under x with no siblings
LoneTextUnder(h, f, x) ==
    /\ h[f].Parent = x
    /\ h[f].Type = TextNode
    /\ h[f].PrevSibling = Nil
    /\ h[f].NextSibling = Nil

\* the nodes of the tree the call just made started on that it changed
Changed ==
    {x \in 1..Len(ret.pre) : ret.out.heap[x] # ret.pre[x]}

\* the nodes of a sequence
Range(s) == {s[i] : i \in 1..Len(s)}

\* C13: a call whose chain holds no ChildrenAsText(true) leaves every node of
\* the tree as it was (ChildrenAsText(false) only makes new nodes outside the
\* tree); whatever the chain, a node of the tree keeps its parent and sibling
\* links, type and payload, and where its child links change both point to
\* one synthesized text node whose parent it is and which has no siblings;
\* when ChildrenAsText(true) is the last step and the only one of the chain,
\* the nodes changed are exactly the nodes that step received.
C13_Frame ==
    Returned =>
        /\ Len(ret.out.heap) >= Len(ret.pre)
        /\ heap = ret.out.heap
        /\ ReadOnly(ret.ns.Data) =>
              SubSeq(ret.out.heap, 1, Len(ret.pre)) = ret.pre
        /\ \A x \in 1..Len(ret.pre) :
              /\ SameButChildren(ret.pre[x], ret.out.heap[x])
              /\ x \in Changed =>
                    /\ ret.out.heap[x].FirstChild > Len(ret.pre)
                    /\ ret.out.heap[x].LastChild = ret.out.heap[x].FirstChild
                    /\ LoneTextUnder(ret.out.heap, ret.out.heap[x].FirstChild, x)
        /\ \A f \in (Len(ret.pre) + 1)..Len(ret.out.heap) :
              LoneTextUnder(ret.out.heap, f, ret.out.heap[f].Parent)
        /\ (/\ Ok(ret.ns)
            /\ ret.op \in Driving
            /\ LastStage = textNodes(TRUE)
            /\ ReadOnly(Front(ret.ns.Data))) =>
              Changed = Range(ret.out.ins) \cap 1..Len(ret.pre)

\* C13 witness: ChildrenAsText(true) driven as the last step over several
\* nodes, one of which had two different children before and has the one
\* synthesized text node as first and last child after
C13_Witness ==
    /\ Returned
    /\ Ok(ret.ns)
    /\ ret.op = "Collect"
    /\ LastStage = textNodes(TRUE)
    /\ Len(ret.out.ins) >= 2
    /\ \E x \in Changed :
          /\ ret.pre[x].FirstChild # ret.pre[x].LastChild
          /\ ret.out.heap[x].FirstChild = ret.out.heap[x].LastChild
          /\ ret.out.heap[x].FirstChild > Len(ret.pre)

\* C13 second witness: ChildrenAsText(false) driven over several nodes made
\* new nodes and changed none of the tree
C13_WitnessReadOnly ==
    /\ Returned
    /\ Ok(ret.ns)
    /\ ret.op = "Collect"
    /\ LastStage = textNodes(FALSE)
    /\ Len(ret.out.heap) >= Len(ret.pre) + 2
    /\ Changed = {}

\* what the CollectOne inside the ExactText call just made returned
Picked ==
    IF ret.out.vis = "CollectOneExactly"
    THEN CollectOneExactly(ret.ns, ret.pre)
    ELSE CollectOne(ret.ns, ret.pre)

\* C14: ExactText on a node set whose CollectOne yields a node returns that
\* node's payload and no error when the node is a text node, and
\* ErrNotTextNode when it is of any other type.
C14_ExactText ==
    (Returned /\ ret.op = "ExactText" /\ Picked.err = ErrNil) =>
        IF ret.out.heap[Picked.item].Type = TextNode
        THEN /\ ret.out.err = ErrNil
             /\ ret.out.text = ret.out.heap[Picked.item].Data
        ELSE ret.out.err = ErrNotTextNode

====
